---- MODULE Spec2Model ----
(***************************************************************************)
(* The page-build pipeline of brut (brut/src/index.js, buildPages.js,      *)
(* moveFiles.js).                                                          *)
(*                                                                         *)
(* Strings are sequences of lexemes.  A path such as /posts/myindex.md is  *)
(* << "/", "posts", "/", "my", "index", ".md" >> and a file text such as   *)
(* "---\ntitle: x\n---\n" is << "---", "LF", "title: x", "LF", "---",      *)
(* "LF" >>.  No lexeme contains a part of a pattern the code searches for  *)
(* (".md", ".html", "/index.html", "index.md", "---", ...), so a search    *)
(* over lexemes finds exactly what the search over characters finds.       *)
(***************************************************************************)
EXTENDS Integers, Sequences, FiniteSets, TLC

VARIABLES
    file,        \* extractFrontmatter: the text handed to the function
    extracted,   \* extractFrontmatter: what the call produced
    pagesTree,   \* the files under pagesDir: absolute path -> text
    publicTree,  \* the files under publicDir: paths relative to publicDir
    missingDirs, \* which of the pages, templates and partials directories do not exist
    partialsTree, \* the files under partialsDir: path relative to it -> text
    outFiles,    \* the files under outDir: absolute path -> content
    outDirs,     \* the directories that exist at or under outDir
    initPc,      \* init(): where the function stands
    mover,       \* moveFiles(): [pc, copied]
    bp,          \* buildPages(): [pc, paths, templates, partials]
    task,        \* the page tasks of paths.map: absolute path -> locals
    written,     \* every writeFile of a page task that succeeded: [page, dest]
    logged,      \* what console.error has printed
    run,         \* 1 in the first build, 2 in a rebuild of the same inputs
    firstTree,   \* the output tree the first build left
    loaded,      \* context builder: the loaded pages, in the order they were loaded
    context,     \* context builder: the context handed to the renders
    renderStarted, \* context builder: the pages whose render has begun
    configFile,  \* which brut.config.js lies in the working directory
    roots,       \* path resolution: the pagesDir and outDir buildPages is called with
    pagePath,    \* path resolution: the path of the page, as getFiles returns it
    resolved     \* path resolution: [called, outDir, relPath, dest] of the page

fmVars == << file, extracted, resolved >>

inputVars == << pagesTree, publicTree, missingDirs, partialsTree, roots, pagePath >>

buildVars == << outFiles, outDirs, initPc, mover, bp, task, written, logged >>

runVars == << run, firstTree >>

ctxVars == << loaded, context, renderStarted, configFile >>

vars == << file, extracted, pagesTree, publicTree, missingDirs, partialsTree, outFiles, outDirs, initPc,
           mover, bp, task, written, logged, run, firstTree,
           loaded, context, renderStarted, configFile, roots, pagePath, resolved >>

(***************************************************************************)
(* Bounds.                                                                 *)
(***************************************************************************)
MaxTextLen == 6

MaxPages == 2

MaxLoaded == 3

(***************************************************************************)
(* String.prototype.endsWith / indexOf / replace / slice.                  *)
(***************************************************************************)
startsWithAt(s, pat, i) ==
    /\ i >= 1
    /\ i + Len(pat) - 1 <= Len(s)
    /\ \A k \in 1..Len(pat) : s[i + k - 1] = pat[k]

endsWith(s, suffix) ==
    /\ Len(suffix) <= Len(s)
    /\ startsWithAt(s, suffix, Len(s) - Len(suffix) + 1)

\* 1-based position of the first occurrence, 0 when there is none
indexOf(s, pat) ==
    LET hits == { i \in 1..Len(s) : startsWithAt(s, pat, i) }
    IN  IF hits = {} THEN 0 ELSE CHOOSE i \in hits : \A j \in hits : i <= j

\* replace(pattern: string, replacement): the FIRST occurrence only
replace(s, pat, rep) ==
    LET i == indexOf(s, pat)
    IN  IF i = 0 THEN s
        ELSE SubSeq(s, 1, i - 1) \o rep \o SubSeq(s, i + Len(pat), Len(s))

\* slice(n) with a 0-based start: drops the first n lexemes
slice(s, n) == SubSeq(s, n + 1, Len(s))

(***************************************************************************)
(* extractFrontmatter: the anchored regular expression                     *)
(*   ^(?:---|<!--)(?:\r?\n|\r)(?:([\s\S]*?)(?:\r?\n|\r))?(?:---|-->)       *)
(*    (?:\r?\n|\r|$)                                                       *)
(* evaluated in the order a backtracking matcher tries its alternatives.   *)
(***************************************************************************)
Newlines == { "LF", "CR" }

OpenDelims == { "---", "<!--" }

CloseDelims == { "---", "-->" }

\* (?:\r?\n|\r) at position i: the lengths it can consume, first choice first
newlineLens(s, i) ==
    IF i > Len(s) \/ s[i] \notin Newlines THEN << >>
    ELSE IF s[i] = "CR" /\ i < Len(s) /\ s[i + 1] = "LF" THEN << 2, 1 >>
    ELSE << 1 >>

\* the final line end written as (?:\r|\n|$): of a CR LF only the CR is consumed
endLenCrOnly(s, i) ==
    IF newlineLens(s, i) # << >> THEN 1
    ELSE IF i = Len(s) + 1 THEN 0
    ELSE -1

\* (?:\r?\n|\r|$) at position i: the length consumed, -1 when it fails
endLen(s, i) ==
    IF newlineLens(s, i) # << >> THEN newlineLens(s, i)[1]
    ELSE IF i = Len(s) + 1 THEN 0
    ELSE -1

\* the closing delimiter without the line end after it: (?:---|-->)
closesAtAnywhere(s, c) == c <= Len(s) /\ s[c] \in CloseDelims

\* (?:---|-->)(?:\r?\n|\r|$) at position c
closesAt(s, c) == c <= Len(s) /\ s[c] \in CloseDelims /\ endLen(s, c + 1) >= 0

\* the optional group and what follows it, tried from position j:
\* the group present with the shortest body first, the group absent last
closeFrom(s, j) ==
    LET fits(b) == { n \in 1..Len(newlineLens(s, j + b)) :
                        closesAt(s, j + b + newlineLens(s, j + b)[n]) }
        bodies  == { b \in 0..Len(s) : fits(b) # {} }
    IN  IF bodies # {}
        THEN LET b == CHOOSE x \in bodies : \A y \in bodies : x <= y
                 n == CHOOSE x \in fits(b) : \A y \in fits(b) : x <= y
                 c == j + b + newlineLens(s, j + b)[n]
             IN  [ ok |-> TRUE, hasBody |-> TRUE, body |-> SubSeq(s, j, j + b - 1),
                   closeAt |-> c, len |-> c + endLen(s, c + 1) ]
        ELSE IF closesAt(s, j)
        THEN [ ok |-> TRUE, hasBody |-> FALSE, body |-> << >>,
               closeAt |-> j, len |-> j + endLen(s, j + 1) ]
        ELSE [ ok |-> FALSE, hasBody |-> FALSE, body |-> << >>, closeAt |-> 0, len |-> 0 ]

NoMatch == [ ok |-> FALSE, hasBody |-> FALSE, body |-> << >>, closeAt |-> 0, len |-> 0 ]

\* RegExp.exec(file): match[0] is the first len lexemes, match[1] is body
\* (undefined when hasBody is FALSE)
regexExec(s) ==
    IF Len(s) = 0 \/ s[1] \notin OpenDelims THEN NoMatch
    ELSE LET opens == { n \in 1..Len(newlineLens(s, 2)) :
                           closeFrom(s, 2 + newlineLens(s, 2)[n]).ok }
         IN  IF opens = {} THEN NoMatch
             ELSE closeFrom(s, 2 + newlineLens(s, 2)[CHOOSE x \in opens : \A y \in opens : x <= y])

(***************************************************************************)
(* js-yaml load(match[1]).  The lexemes that are not delimiters or line    *)
(* ends are one `key: value` line each.                                    *)
(***************************************************************************)
KeyValueLines ==
    { "title: x", "template: default", "template: missing",
      "buildScript: /scripts/ok.js", "buildScript: /scripts/bad.js",
      "permalink: /custom/" }

yamlKey(line) ==
    CASE line = "title: x" -> "title"
      [] line \in { "template: default", "template: missing" } -> "template"
      [] line = "permalink: /custom/" -> "permalink"
      [] OTHER -> "buildScript"

yamlValue(line) ==
    CASE line = "title: x" -> "x"
      [] line = "template: default" -> "default"
      [] line = "template: missing" -> "missing"
      [] line = "buildScript: /scripts/ok.js" -> "/scripts/ok.js"
      [] line = "permalink: /custom/" -> "/custom/"
      [] OTHER -> "/scripts/bad.js"

EmptyMapping == [ kind |-> "mapping", fields |-> << >> ]

\* load(): String(undefined) is the plain scalar "undefined"; an empty
\* document is null; a leading `---` line is the document start marker;
\* key: value lines give a mapping (a duplicated key throws); lines without
\* a colon give a plain scalar; anything else is a YAMLException.
load(m) ==
    IF ~m.hasBody THEN [ kind |-> "scalar", fields |-> << >> ]
    ELSE LET all   == SelectSeq(m.body, LAMBDA t : t \notin Newlines)
             lines == IF all # << >> /\ all[1] = "---" THEN Tail(all) ELSE all
             keys  == { yamlKey(lines[i]) : i \in 1..Len(lines) }
         IN  IF lines = << >> THEN [ kind |-> "null", fields |-> << >> ]
             ELSE IF \A i \in 1..Len(lines) : lines[i] \in KeyValueLines
             THEN IF Cardinality(keys) < Len(lines)
                  THEN [ kind |-> "error", fields |-> << >> ]
                  ELSE [ kind |-> "mapping",
                         fields |-> [ k \in keys |->
                             yamlValue(lines[CHOOSE i \in 1..Len(lines) : yamlKey(lines[i]) = k]) ] ]
             ELSE IF \A i \in 1..Len(lines) : lines[i] \in { "<!--", "-->" }
             THEN [ kind |-> "scalar", fields |-> << >> ]
             ELSE [ kind |-> "error", fields |-> << >> ]

\* extractFrontmatter(file): { frontmatter, content }, or the exception of load
extractFrontmatter(s) ==
    LET match == regexExec(s)
    IN  IF match.ok
        THEN IF load(match).kind = "error"
             THEN [ threw |-> TRUE, frontmatter |-> EmptyMapping, content |-> << >> ]
             ELSE [ threw |-> FALSE, frontmatter |-> load(match),
                    content |-> slice(s, match.len) ]
        ELSE [ threw |-> FALSE, frontmatter |-> EmptyMapping, content |-> s ]

\* extractFrontmatter has not been called
NotCalled == [ called |-> FALSE, threw |-> FALSE, frontmatter |-> EmptyMapping, content |-> << >> ]

(***************************************************************************)
(* getConfig (brut/src/index.js) applied to www/brut.config.js.            *)
(***************************************************************************)
cwd == << "/", "site" >>

configObject == [ pagesDir |-> << "/", "pages" >>, collections |-> << "posts" >> ]

getConfig ==
    [ pagesDir     |-> cwd \o configObject.pagesDir,
      templatesDir |-> cwd \o << "/", "templates" >>,
      partialsDir  |-> cwd \o << "/", "partials" >>,
      publicDir    |-> cwd \o << "/", "public" >>,
      outDir       |-> cwd \o << "/", "dist" >>,
      collections  |-> configObject.collections ]

config == getConfig

(***************************************************************************)
(* The inputs: the files a site may hold under pagesDir (path relative to  *)
(* it -> text), under templatesDir, partialsDir and publicDir, and the     *)
(* build script modules a page may name.                                   *)
(***************************************************************************)
PagePaths ==
    { << "/", "index", ".html" >>,
      << "/", "about", ".md" >>,
      << "/", "about", ".html" >>,
      << "/", "posts", "/", "index", ".md" >>,
      << "/", "posts", "/", "hello", ".md" >>,
      << "/", "posts", "/", "bad", ".md" >>,
      << "/", "posts", "/", "first", ".html" >>,
      << "/", "my", "index", ".md" >>,
      << "/", "404", ".md" >>,
      << "/", "draft", ".html" >>,
      << "/", "feed", ".xml" >>,
      << "/", "notes", ".txt" >> }

pageText(rel) ==
    CASE rel = << "/", "index", ".html" >> ->
            << "<!--", "LF", "template: default", "LF", "-->", "LF", "<h1>Home</h1>" >>
      [] rel = << "/", "about", ".md" >> -> << "# About" >>
      [] rel = << "/", "about", ".html" >> -> << "<h1>About</h1>", "{{>nav}}" >>
      [] rel = << "/", "posts", "/", "index", ".md" >> ->
            << "---", "LF", "template: default", "LF", "title: x", "LF", "---", "LF", "# Blog" >>
      [] rel = << "/", "posts", "/", "hello", ".md" >> ->
            << "---", "CR", "LF", "buildScript: /scripts/ok.js", "CR", "LF", "---", "CR", "LF", "# Hello" >>
      [] rel = << "/", "posts", "/", "bad", ".md" >> ->
            << "---", "LF", "buildScript: /scripts/bad.js", "LF", "---", "LF", "# Bad" >>
      [] rel = << "/", "posts", "/", "first", ".html" >> ->
            << "<!--", "LF", "permalink: /custom/", "LF", "template: default", "LF",
               "buildScript: /scripts/ok.js", "LF", "-->", "LF", "<p>First</p>" >>
      [] rel = << "/", "my", "index", ".md" >> -> << "# My index" >>
      [] rel = << "/", "404", ".md" >> -> << "# Not found" >>
      [] rel = << "/", "draft", ".html" >> ->
            << "<!--", "LF", "template: missing", "LF", "-->", "LF", "<p>Draft</p>" >>
      [] rel = << "/", "feed", ".xml" >> -> << "<feed/>" >>
      [] OTHER -> << "notes" >>

Sites == { S \in SUBSET PagePaths : Cardinality(S) <= MaxPages }

TemplateFiles ==
    ( << "/", "default", ".html" >> :> << "<html>", "{{title}}", "{{>nav}}", "{{>content}}", "</html>" >> )

PartialFiles == ( << "/", "nav", ".html" >> :> << "<nav/>" >> )

\* the partials directories a site may have: none, the one above, and one
\* that also holds a partial named content
PartialTrees ==
    { << >>,
      PartialFiles,
      PartialFiles @@ ( << "/", "content", ".html" >> :> << "<aside/>" >> ) }

PublicPaths == { << "/", "index", ".html" >> }

\* what a script module does when imported and called: returns or throws
ThrowingScripts == { "/scripts/bad.js" }

StaleTrees ==
    { << >>,
      ( config.outDir \o << "/", "old", "/", "index", ".html" >> :> << "stale" >> ) }

(***************************************************************************)
(* The external capabilities, each by what it does to a text.              *)
(***************************************************************************)
\* unified().use(remarkParse)...process(file): the HTML of the Markdown
processMarkdown(content) == << "md2html(" >> \o content \o << ")" >>

\* html-minifier-terser
minify(html) == << "minify(" >> \o html \o << ")" >>

\* script.buildPage(content, frontmatter, path) of a module that returns
scriptBuildPage(content, frontmatter, path) ==
    << "script(" >> \o path \o << ":" >> \o content \o << ")" >>

\* { ...partials, content }: the page body replaces a partial named content
partialsOfContentLast(content, partials) ==
    [ k \in { "content" } \cup DOMAIN partials |->
        IF k = "content" THEN content ELSE partials[k] ]

\* { content, ...partials }: a partial named content replaces the page body
partialsOf(content, partials) ==
    [ k \in { "content" } \cup DOMAIN partials |->
        IF k \in DOMAIN partials THEN partials[k] ELSE content ]

\* what one template lexeme renders to
renderTag(tag, view, partials) ==
    CASE tag = "{{title}}" ->
            IF "title" \in DOMAIN view.fields THEN << view.fields["title"] >> ELSE << >>
      [] tag = "{{>nav}}" -> IF "nav" \in DOMAIN partials THEN partials["nav"] ELSE << >>
      [] tag = "{{>content}}" -> partials["content"]
      [] OTHER -> << tag >>

\* mustache.render(template, view, partials)
RECURSIVE mustacheRender(_, _, _)
mustacheRender(template, view, partials) ==
    IF template = << >> THEN << >>
    ELSE renderTag(Head(template), view, partials)
            \o mustacheRender(Tail(template), view, partials)

\* basename(path).replace(extname(path), "")
registryName(path) == path[Len(path) - 1]

\* loadTemplates / loadPartials: { [name]: source } of every file of the directory
loadRegistry(files) ==
    [ n \in { registryName(f) : f \in DOMAIN files } |->
        files[CHOOSE f \in DOMAIN files : registryName(f) = n] ]

(***************************************************************************)
(* buildPages: the synchronous code of one page task between two awaits.   *)
(***************************************************************************)
\* path.endsWith(".md") || path.endsWith(".html")
isPageOnlyHtml(path) == endsWith(path, << ".html" >>)

isPage(path) == endsWith(path, << ".md" >>) \/ endsWith(path, << ".html" >>)

\* path.endsWith("/index.html") || path.endsWith("index.md")
isIndexFile(path) ==
    endsWith(path, << "/", "index", ".html" >>) \/ endsWith(path, << "index", ".md" >>)

\* lines 466-471: the directory the page is written into, for the outDir
\* (outDirRoot) and pagesDir buildPages is called with
outDirFor(dirs, path) ==
    LET outDir == dirs.outDir \o replace(path, dirs.pagesDir, << >>)
    IN  IF isIndexFile(path)
        THEN replace(replace(outDir, << "/", "index", ".html" >>, << >>),
                     << "/", "index", ".md" >>, << >>)
        ELSE replace(replace(outDir, << ".md" >>, << >>), << ".html" >>, << >>)

\* line 473
relPathFor(dirs, path) == replace(outDirFor(dirs, path), dirs.outDir, << >>)

\* line 482: outDir === `${outDirRoot}/404`
is404For(dirs, outDir) == outDir = dirs.outDir \o << "/", "404" >>

\* lines 483 and 486: the file writeFile is given
destFor(dirs, outDir) ==
    IF is404For(dirs, outDir) THEN outDir \o << ".html" >>
    ELSE outDir \o << "/", "index", ".html" >>

\* the same for the directories of config
outDirOf(path) == outDirFor(config, path)

relPathOf(path) == relPathFor(config, path)

\* the test of line 482 without the special case
is404Never(outDir) == FALSE

\* line 482: outDir === `${outDirRoot}/404`
is404(outDir) == is404For(config, outDir)

\* lines 483 and 486: the file writeFile is given
destOf(outDir) ==
    IF is404(outDir) THEN outDir \o << ".html" >>
    ELSE outDir \o << "/", "index", ".html" >>

\* the directories an ensureDir of the parent directory would make sure exist
ancestorsOfParentOnly(dir) ==
    { SubSeq(dir, 1, k) : k \in { j \in 1..(Len(dir) - 1) : dir[j + 1] = "/" } }

\* the directories ensureDir(dir) makes sure exist: dir and its ancestors
ancestorsOf(dir) ==
    { SubSeq(dir, 1, k) : k \in { j \in 1..Len(dir) : j = Len(dir) \/ dir[j + 1] = "/" } }

\* the directory a file lies in
dirname(path) ==
    LET slashes == { k \in 1..Len(path) : path[k] = "/" }
        last    == CHOOSE k \in slashes : \A j \in slashes : j <= k
    IN  SubSeq(path, 1, last - 1)

NewTask ==
    [ pc |-> "reading", frontmatter |-> EmptyMapping, html |-> << >>,
      outDir |-> << >>, relPath |-> << >>, result |-> << >> ]

SkippedTask == [ NewTask EXCEPT !.pc = "skipped" ]

\* buildPage with templates[frontmatter.template] read before hasTemplate is
\* tested: a null registry fails every page
templateStepLookupFirst(html, frontmatter, templates, partials) ==
    IF frontmatter.kind = "null" \/ templates.state # "loaded"
    THEN [ threw |-> TRUE, content |-> html ]
    ELSE IF "template" \notin DOMAIN frontmatter.fields
    THEN [ threw |-> FALSE, content |-> html ]
    ELSE IF frontmatter.fields["template"] \notin DOMAIN templates.map
    THEN [ threw |-> TRUE, content |-> html ]
    ELSE [ threw |-> FALSE,
           content |-> mustacheRender(templates.map[frontmatter.fields["template"]],
                                      frontmatter, partialsOf(html, partials.map)) ]

\* buildPage up to its first await (lines 338-351): reading .template of a
\* null frontmatter throws, as does indexing a null registry, and
\* mustache.render throws on a template that is not a string
templateStep(html, frontmatter, templates, partials) ==
    IF frontmatter.kind = "null" THEN [ threw |-> TRUE, content |-> html ]
    ELSE IF "template" \notin DOMAIN frontmatter.fields
    THEN [ threw |-> FALSE, content |-> html ]
    ELSE IF templates.state # "loaded"
              \/ frontmatter.fields["template"] \notin DOMAIN templates.map
    THEN [ threw |-> TRUE, content |-> html ]
    ELSE [ threw |-> FALSE,
           content |-> mustacheRender(templates.map[frontmatter.fields["template"]],
                                      frontmatter, partialsOf(html, partials.map)) ]

\* lines 463-480 with a buildPage that returns the content as it is when the
\* page has neither a template nor a build script
startBuildPageMinifiesOnDemand(t, path, html, templates, partials) ==
    LET step == templateStep(html, t.frontmatter, templates, partials)
        next == [ t EXCEPT !.html = step.content,
                           !.outDir = outDirOf(path),
                           !.relPath = relPathOf(path) ]
    IN  IF step.threw THEN [ next EXCEPT !.pc = "failed" ]
        ELSE IF "buildScript" \in DOMAIN t.frontmatter.fields
        THEN [ next EXCEPT !.pc = "scripting" ]
        ELSE IF "template" \in DOMAIN t.frontmatter.fields
        THEN [ next EXCEPT !.pc = "minifying" ]
        ELSE [ next EXCEPT !.result = step.content,
                           !.pc = IF is404(outDirOf(path)) THEN "writing" ELSE "ensuring" ]

\* lines 463-480, run when the page's html is known: the paths, then
\* buildPage up to its first await (the script import, or minify)
startBuildPage(t, path, html, templates, partials) ==
    LET step == templateStep(html, t.frontmatter, templates, partials)
        next == [ t EXCEPT !.html = step.content,
                           !.outDir = outDirOf(path),
                           !.relPath = relPathOf(path) ]
    IN  IF step.threw THEN [ next EXCEPT !.pc = "failed" ]
        ELSE IF "buildScript" \in DOMAIN t.frontmatter.fields
        THEN [ next EXCEPT !.pc = "scripting" ]
        ELSE [ next EXCEPT !.pc = "minifying" ]

(***************************************************************************)
(* Promise.all and the code that runs when it settles.                     *)
(***************************************************************************)
Running == { "reading", "converting", "scripting", "minifying", "ensuring", "writing", "storing" }

\* a page task whose sibling was rejected is dropped with the Promise.all
continuesUnlessSiblingFailed(tk, p) ==
    tk[p].pc \in Running /\ \A q \in DOMAIN tk : tk[q].pc # "failed"

\* a page task that has not returned or thrown goes on, whatever its siblings did
continues(tk, p) == tk[p].pc \in Running

\* the Promise.all of line 451 is fulfilled / rejected
allFulfilled(tk) == \A p \in DOMAIN tk : tk[p].pc \in { "done", "skipped" }

anyRejected(tk) == \E p \in DOMAIN tk : tk[p].pc = "failed"

\* buildPages after a step of a page task: the await of line 451 returns or
\* throws into the catch of line 491, and the function resolves
bpAfter(b, tk) ==
    IF b.pc = "awaiting" /\ (allFulfilled(tk) \/ anyRejected(tk))
    THEN [ b EXCEPT !.pc = "resolved" ]
    ELSE b

\* console.error(error) of line 492: the first rejection only
loggedAfter(b, tk) ==
    IF b.pc = "awaiting" /\ anyRejected(tk)
    THEN logged \cup { p \in DOMAIN tk : tk[p].pc = "failed" }
    ELSE logged

\* init after a step: the Promise.all of index.js line 120
initAfter(b, m) ==
    IF initPc = "awaiting" /\ b.pc = "resolved" /\ m.pc = "done" THEN "finished" ELSE initPc

\* a step of page task p that leaves it as t
TaskStep(p, t) ==
    LET tk == [ task EXCEPT ![p] = t ]
    IN  /\ task' = tk
        /\ bp' = bpAfter(bp, tk)
        /\ logged' = loggedAfter(bp, tk)
        /\ initPc' = initAfter(bpAfter(bp, tk), mover)

(***************************************************************************)
(* init (index.js lines 115-122).                                          *)
(***************************************************************************)
Pending == [ state |-> "pending", map |-> << >> ]

IdleBuild ==
    /\ initPc = "config"
    /\ mover = [ pc |-> "idle", copied |-> {} ]
    /\ bp = [ pc |-> "idle", paths |-> "pending", templates |-> Pending, partials |-> Pending ]
    /\ task = << >>
    /\ written = {}
    /\ logged = {}

NoContext == [ state |-> "none", map |-> << >>, updated_date_iso |-> << >> ]

\* no path has been handed to the path resolution
NotResolved == [ called |-> FALSE, outDir |-> << >>, relPath |-> << >>, dest |-> << >> ]

IdlePaths ==
    /\ roots = [ pagesDir |-> config.pagesDir, outDir |-> config.outDir ]
    /\ pagePath = << >>
    /\ resolved = NotResolved

IdleContext ==
    /\ loaded = << >>
    /\ context = NoContext
    /\ renderStarted = {}
    /\ configFile = "www"

Init ==
    /\ file = << >>
    /\ extracted = NotCalled
    /\ \E S \in Sites :
          pagesTree = [ p \in { config.pagesDir \o rel : rel \in S } |->
                          pageText(slice(p, Len(config.pagesDir))) ]
    /\ publicTree \in SUBSET PublicPaths
    /\ missingDirs = {}
    /\ partialsTree = PartialFiles
    /\ IdlePaths
    /\ outFiles \in StaleTrees
    /\ outDirs = UNION { ancestorsOf(dirname(f)) : f \in DOMAIN outFiles }
    /\ IdleBuild
    /\ run = 1
    /\ firstTree = << >>
    /\ IdleContext

\* await getConfig()
GetConfig ==
    /\ initPc = "config"
    /\ initPc' = "clearing"
    /\ UNCHANGED << fmVars, ctxVars, inputVars, outFiles, outDirs, mover, bp, task, written, logged, runVars >>

\* init without the rm of line 118
RemoveOutDirSkipped ==
    /\ initPc = "clearing"
    /\ initPc' = "making"
    /\ UNCHANGED << fmVars, ctxVars, inputVars, outFiles, outDirs, mover, bp, task, written, logged, runVars >>

\* await rm(config.outDir, { recursive: true, force: true })
RemoveOutDir ==
    /\ initPc = "clearing"
    /\ outFiles' = << >>
    /\ outDirs' = {}
    /\ initPc' = "making"
    /\ UNCHANGED << fmVars, ctxVars, inputVars, mover, bp, task, written, logged, runVars >>

\* await mkdir(config.outDir), then moveFiles(config) and buildPages(config)
\* run up to their first await
MakeOutDir ==
    /\ initPc = "making"
    /\ outDirs' = outDirs \cup { config.outDir }
    /\ mover' = [ mover EXCEPT !.pc = "copying" ]
    /\ bp' = [ bp EXCEPT !.pc = "listing" ]
    /\ initPc' = "awaiting"
    /\ UNCHANGED << fmVars, ctxVars, inputVars, outFiles, task, written, logged, runVars >>

(***************************************************************************)
(* moveFiles (moveFiles.js): cp(publicDir, outDir, { recursive: true })    *)
(* copies the files one after the other.                                   *)
(***************************************************************************)
staticContent(rel) == << "public:" >> \o rel

writeTo(files, dest, content) ==
    [ f \in DOMAIN files \cup { dest } |-> IF f = dest THEN content ELSE files[f] ]

CopyFile(rel) ==
    /\ mover.pc = "copying"
    /\ rel \in publicTree \ mover.copied
    /\ outFiles' = writeTo(outFiles, config.outDir \o rel, staticContent(rel))
    /\ mover' = [ mover EXCEPT !.copied = @ \cup { rel } ]
    /\ UNCHANGED << fmVars, ctxVars, inputVars, outDirs, initPc, bp, task, written, logged, runVars >>

\* cp resolves
FinishCopy ==
    /\ mover.pc = "copying"
    /\ mover.copied = publicTree
    /\ mover' = [ mover EXCEPT !.pc = "done" ]
    /\ initPc' = initAfter(bp, [ mover EXCEPT !.pc = "done" ])
    /\ UNCHANGED << fmVars, ctxVars, inputVars, outFiles, outDirs, bp, task, written, logged, runVars >>

(***************************************************************************)
(* buildPages (buildPages.js lines 438-494).                               *)
(***************************************************************************)
\* the Promise.all of line 446 has both registries
registriesLoadedNotAwaited(templates, partials) == TRUE

registriesLoaded(templates, partials) ==
    templates.state # "pending" /\ partials.state # "pending"

\* getFiles (lines 363-376): the files of the directory, or null when readdir throws
getFiles(dir) == IF dir \in missingDirs THEN "null" ELSE "listed"

\* line 445: getFiles(pagesDir) resolves; loadTemplates and loadPartials start
ListPages ==
    /\ bp.pc = "listing"
    /\ bp' = [ bp EXCEPT !.pc = "loading", !.paths = getFiles("pages") ]
    /\ UNCHANGED << fmVars, ctxVars, inputVars, outFiles, outDirs, initPc, mover, task, written, logged, runVars >>

\* what console.error prints when paths.map is called on null
PathsTypeError == << "TypeError", "paths.map" >>

\* lines 451-454: paths.map starts a task per path; a path that is no page
\* returns at once; on paths = null the call throws into the catch of line 491
fanOut(b) ==
    IF b.paths = "null"
    THEN /\ task' = << >>
         /\ bp' = [ b EXCEPT !.pc = "resolved" ]
         /\ logged' = logged \cup { PathsTypeError }
         /\ initPc' = initAfter([ b EXCEPT !.pc = "resolved" ], mover)
    ELSE LET tk == [ p \in DOMAIN pagesTree |-> IF isPage(p) THEN NewTask ELSE SkippedTask ]
         IN  /\ task' = tk
             /\ bp' = bpAfter([ b EXCEPT !.pc = "awaiting" ], tk)
             /\ logged' = logged
             /\ initPc' = initAfter(bpAfter([ b EXCEPT !.pc = "awaiting" ], tk), mover)

\* after a loader resolved: line 451 once line 446 has what it awaits
afterLoad(b) ==
    IF registriesLoaded(b.templates, b.partials)
    THEN fanOut(b)
    ELSE bp' = b /\ UNCHANGED << task, initPc, logged >>

\* loadTemplates / loadPartials (lines 385-432): null when getFiles gave null
loadFrom(dir, files) ==
    IF getFiles(dir) = "null" THEN [ state |-> "null", map |-> << >> ]
    ELSE [ state |-> "loaded", map |-> loadRegistry(files) ]

LoadTemplates ==
    /\ bp.pc = "loading"
    /\ bp.templates.state = "pending"
    /\ afterLoad([ bp EXCEPT !.templates = loadFrom("templates", TemplateFiles) ])
    /\ UNCHANGED << fmVars, ctxVars, inputVars, outFiles, outDirs, mover, written, runVars >>

LoadPartials ==
    /\ bp.pc = "loading"
    /\ bp.partials.state = "pending"
    /\ afterLoad([ bp EXCEPT !.partials = loadFrom("partials", partialsTree) ])
    /\ UNCHANGED << fmVars, ctxVars, inputVars, outFiles, outDirs, mover, written, runVars >>

\* lines 456-462: readFile resolves, extractFrontmatter, then processMarkdown
\* is awaited (.md) or the page goes on to lines 463-480
ReadPage(p) ==
    /\ p \in DOMAIN task
    /\ continues(task, p)
    /\ task[p].pc = "reading"
    /\ LET got == extractFrontmatter(pagesTree[p])
           t   == [ task[p] EXCEPT !.frontmatter = got.frontmatter, !.html = got.content ]
       IN  TaskStep(p, IF got.threw THEN [ task[p] EXCEPT !.pc = "failed" ]
                       ELSE IF endsWith(p, << ".md" >>) THEN [ t EXCEPT !.pc = "converting" ]
                       ELSE startBuildPage(t, p, got.content, bp.templates, bp.partials))
    /\ UNCHANGED << fmVars, ctxVars, inputVars, outFiles, outDirs, mover, written, runVars >>

\* line 461: processMarkdown resolves, then lines 463-480
ConvertMarkdown(p) ==
    /\ p \in DOMAIN task
    /\ continues(task, p)
    /\ task[p].pc = "converting"
    /\ TaskStep(p, startBuildPage(task[p], p, processMarkdown(task[p].html),
                                  bp.templates, bp.partials))
    /\ UNCHANGED << fmVars, ctxVars, inputVars, outFiles, outDirs, mover, written, runVars >>

\* lines 351-352: the script module is imported and called
RunBuildScript(p) ==
    /\ p \in DOMAIN task
    /\ continues(task, p)
    /\ task[p].pc = "scripting"
    /\ TaskStep(p, IF task[p].frontmatter.fields["buildScript"] \in ThrowingScripts
                   THEN [ task[p] EXCEPT !.pc = "failed" ]
                   ELSE [ task[p] EXCEPT
                            !.html = scriptBuildPage(@, task[p].frontmatter, task[p].relPath),
                            !.pc = "minifying" ])
    /\ UNCHANGED << fmVars, ctxVars, inputVars, outFiles, outDirs, mover, written, runVars >>

\* line 355 resolves; lines 482-485: writeFile (404) or ensureDir is called
Minify(p) ==
    /\ p \in DOMAIN task
    /\ continues(task, p)
    /\ task[p].pc = "minifying"
    /\ TaskStep(p, [ task[p] EXCEPT !.result = minify(task[p].html),
                                    !.pc = IF is404(task[p].outDir) THEN "writing" ELSE "ensuring" ])
    /\ UNCHANGED << fmVars, ctxVars, inputVars, outFiles, outDirs, mover, written, runVars >>

\* line 485: ensureDir(outDir) resolves; writeFile is called
EnsureDir(p) ==
    /\ p \in DOMAIN task
    /\ continues(task, p)
    /\ task[p].pc = "ensuring"
    /\ outDirs' = outDirs \cup ancestorsOf(task[p].outDir)
    /\ TaskStep(p, [ task[p] EXCEPT !.pc = "writing" ])
    /\ UNCHANGED << fmVars, ctxVars, inputVars, outFiles, mover, written, runVars >>

\* lines 483 / 486, writeFile(file, result): the file is opened with the flag
\* "w", which creates or empties it; the open is rejected when the directory
\* is missing
OpenFile(p) ==
    /\ p \in DOMAIN task
    /\ continues(task, p)
    /\ task[p].pc = "writing"
    /\ IF dirname(destOf(task[p].outDir)) \in outDirs
       THEN /\ outFiles' = writeTo(outFiles, destOf(task[p].outDir), << >>)
            /\ TaskStep(p, [ task[p] EXCEPT !.pc = "storing" ])
       ELSE /\ UNCHANGED outFiles
            /\ TaskStep(p, [ task[p] EXCEPT !.pc = "failed" ])
    /\ UNCHANGED << fmVars, ctxVars, inputVars, outDirs, mover, written, runVars >>

\* data written from offset 0 of a file that holds old: what lies behind the
\* data stays
overlay(data, old) == data \o SubSeq(old, Len(data) + 1, Len(old))

\* lines 483 / 486, writeFile(file, result): the data is written through the
\* task's own descriptor, the file is closed and the promise resolves
WriteFile(p) ==
    /\ p \in DOMAIN task
    /\ continues(task, p)
    /\ task[p].pc = "storing"
    /\ outFiles' = writeTo(outFiles, destOf(task[p].outDir),
                           overlay(task[p].result, outFiles[destOf(task[p].outDir)]))
    /\ written' = written \cup { [ page |-> p, dest |-> destOf(task[p].outDir) ] }
    /\ TaskStep(p, [ task[p] EXCEPT !.pc = "done" ])
    /\ UNCHANGED << fmVars, ctxVars, inputVars, outDirs, mover, runVars >>

Next ==
    \/ GetConfig
    \/ RemoveOutDir
    \/ MakeOutDir
    \/ \E rel \in PublicPaths : CopyFile(rel)
    \/ FinishCopy
    \/ ListPages
    \/ LoadTemplates
    \/ LoadPartials
    \/ \E p \in DOMAIN pagesTree : ReadPage(p)
    \/ \E p \in DOMAIN pagesTree : ConvertMarkdown(p)
    \/ \E p \in DOMAIN pagesTree : RunBuildScript(p)
    \/ \E p \in DOMAIN pagesTree : Minify(p)
    \/ \E p \in DOMAIN pagesTree : EnsureDir(p)
    \/ \E p \in DOMAIN pagesTree : OpenFile(p)
    \/ \E p \in DOMAIN pagesTree : WriteFile(p)

Spec == Init /\ [][Next]_vars

\* nothing of the build is left to run
Quiescent ==
    /\ initPc = "finished"
    /\ \A p \in DOMAIN task : ~continues(task, p)

(***************************************************************************)
(* A rebuild: init run a second time on the same inputs, over the output   *)
(* directory the first run left.                                           *)
(***************************************************************************)
Rebuild ==
    /\ run = 1
    /\ Quiescent
    /\ run' = 2
    /\ firstTree' = outFiles
    /\ initPc' = "config"
    /\ mover' = [ pc |-> "idle", copied |-> {} ]
    /\ bp' = [ pc |-> "idle", paths |-> "pending", templates |-> Pending, partials |-> Pending ]
    /\ task' = << >>
    /\ written' = {}
    /\ logged' = {}
    /\ UNCHANGED << fmVars, ctxVars, inputVars, outFiles, outDirs >>

NextRebuild == Next \/ Rebuild

SpecRebuild == Init /\ [][NextRebuild]_vars

(***************************************************************************)
(* A build of a site that lacks some of its directories.                   *)
(***************************************************************************)
InitMissingDirs ==
    /\ file = << >>
    /\ extracted = NotCalled
    /\ missingDirs \in SUBSET { "pages", "templates", "partials" } \ { {} }
    /\ partialsTree = PartialFiles
    /\ IdlePaths
    /\ \E S \in Sites :
          pagesTree = [ p \in { config.pagesDir \o rel :
                                  rel \in IF "pages" \in missingDirs THEN {} ELSE S } |->
                          pageText(slice(p, Len(config.pagesDir))) ]
    /\ publicTree = PublicPaths
    /\ outFiles = << >>
    /\ outDirs = {}
    /\ IdleBuild
    /\ run = 1
    /\ firstTree = << >>
    /\ IdleContext

SpecMissingDirs == InitMissingDirs /\ [][Next]_vars

(***************************************************************************)
(* A build of a site with any of the partials directories.                 *)
(***************************************************************************)
InitPartials ==
    /\ file = << >>
    /\ extracted = NotCalled
    /\ missingDirs = {}
    /\ partialsTree \in PartialTrees
    /\ IdlePaths
    /\ \E S \in Sites :
          pagesTree = [ p \in { config.pagesDir \o rel : rel \in S } |->
                          pageText(slice(p, Len(config.pagesDir))) ]
    /\ publicTree = PublicPaths
    /\ outFiles = << >>
    /\ outDirs = {}
    /\ IdleBuild
    /\ run = 1
    /\ firstTree = << >>
    /\ IdleContext

SpecPartials == InitPartials /\ [][Next]_vars

(***************************************************************************)
(* The specification of the path resolution alone (lines 463-487): one     *)
(* page path under any of the roots getConfig can produce is resolved.     *)
(***************************************************************************)
\* process.cwd(): the working directories, two of them with an extension
WorkingDirs ==
    { << "/", "site" >>, << "/", "site", ".html" >>, << "/", "my", ".md" >> }

\* the pagesDir and outDir of a brut.config.js; << >> is a key left out
ConfigObjects ==
    [ pagesDir : { << >>, << "/", "pages", "/" >>, << "/", "docs", ".md" >> },
      outDir   : { << >>, << "/", "dist", "/" >>, << "/", "out", ".html" >>,
                   << "/", "index", ".html" >> } ]

\* getConfig for a working directory and a config object
configOf(wd, obj) ==
    [ pagesDir |-> IF obj.pagesDir # << >> THEN wd \o obj.pagesDir
                   ELSE wd \o << "/", "pages" >>,
      outDir   |-> IF obj.outDir # << >> THEN wd \o obj.outDir
                   ELSE wd \o << "/", "dist" >> ]

\* path.resolve(dir) of an absolute path: without a trailing slash
resolve(dir) ==
    IF Len(dir) > 1 /\ dir[Len(dir)] = "/" THEN SubSeq(dir, 1, Len(dir) - 1) ELSE dir

\* the files under the pages root, some in directories whose name holds an
\* extension
RelativePaths ==
    { << "/", "index", ".html" >>,
      << "/", "about", ".md" >>,
      << "/", "about", ".html" >>,
      << "/", "404", ".md" >>,
      << "/", "posts", "/", "index", ".md" >>,
      << "/", "posts", "/", "index", ".html" >>,
      << "/", "posts", "/", "hello", ".md" >>,
      << "/", "v1", ".md", "/", "intro", ".md" >>,
      << "/", "v1", ".md", "/", "intro", ".html" >>,
      << "/", "old", ".html", "/", "page", ".html" >>,
      << "/", "old", ".html", "/", "index", ".md" >>,
      << "/", "notes", ".txt" >> }

InitPaths ==
    /\ file = << >>
    /\ extracted = NotCalled
    /\ pagesTree = << >>
    /\ publicTree = {}
    /\ missingDirs = {}
    /\ partialsTree = PartialFiles
    /\ outFiles = << >>
    /\ outDirs = {}
    /\ IdleBuild
    /\ run = 1
    /\ firstTree = << >>
    /\ IdleContext
    /\ \E wd \in WorkingDirs, obj \in ConfigObjects : roots = configOf(wd, obj)
    /\ \E rel \in RelativePaths : pagePath = resolve(roots.pagesDir) \o rel
    /\ resolved = NotResolved

\* the body of paths.map for one path, as far as the paths go: the test of
\* line 454, outDir (466-471), relPath (473) and the file given to writeFile
ResolvePage ==
    /\ ~resolved.called
    /\ isPage(pagePath)
    /\ resolved' = [ called  |-> TRUE,
                     outDir  |-> outDirFor(roots, pagePath),
                     relPath |-> relPathFor(roots, pagePath),
                     dest    |-> destFor(roots, outDirFor(roots, pagePath)) ]
    /\ UNCHANGED << file, extracted, inputVars, buildVars, runVars, ctxVars >>

NextPaths == ResolvePage

SpecPaths == InitPaths /\ [][NextPaths]_vars

(***************************************************************************)
(* The specification of extractFrontmatter alone: any text of up to        *)
(* MaxTextLen lexemes is handed to the function once.                      *)
(***************************************************************************)
TextLexemes == { "---", "<!--", "-->", "LF", "CR", "title: x" }

Texts == UNION { [ 1..n -> TextLexemes ] : n \in 0..MaxTextLen }

InitFrontmatter ==
    /\ file \in Texts
    /\ extracted = NotCalled
    /\ pagesTree = << >>
    /\ publicTree = {}
    /\ missingDirs = {}
    /\ partialsTree = PartialFiles
    /\ IdlePaths
    /\ outFiles = << >>
    /\ outDirs = {}
    /\ IdleBuild
    /\ run = 1
    /\ firstTree = << >>
    /\ IdleContext

CallExtractFrontmatter ==
    /\ ~extracted.called
    /\ extracted' = [ called |-> TRUE,
                      threw |-> extractFrontmatter(file).threw,
                      frontmatter |-> extractFrontmatter(file).frontmatter,
                      content |-> extractFrontmatter(file).content ]
    /\ UNCHANGED << file, resolved, inputVars, buildVars, runVars, ctxVars >>

NextFrontmatter == CallExtractFrontmatter

SpecFrontmatter == InitFrontmatter /\ [][NextFrontmatter]_vars

(***************************************************************************)
(* The collection/context builder (design section 4.5) with the            *)
(* configuration of index.js: config.collections and config.processContext *)
(* (the function of www/brut.config.js, or the identity when the           *)
(* configuration file gives none).                                         *)
(***************************************************************************)
ConfigFiles == { "www", "collections only" }

PublishedDates == { "", "2023-06-01", "2024-01-01", "2024-06-01", "soon" }

LoadablePaths ==
    { config.pagesDir \o rel :
        rel \in { << "/", "posts", "/", "a", ".md" >>, << "/", "posts", "/", "b", ".md" >>,
                  << "/", "posts", "/", "c", ".html" >>, << "/", "about", ".md" >> } }

\* the frontmatter mappings a loaded page may carry
LoadableFrontmatters ==
    { EmptyMapping }
        \cup { [ kind |-> "mapping", fields |-> [ k \in { "published_date" } |-> d ] ] :
                 d \in PublishedDates }

LoadablePages == [ path : LoadablePaths, frontmatter : LoadableFrontmatters ]

\* the page lists the loading phase may hand over: no path twice
LoadedLists ==
    UNION { { l \in [ 1..n -> LoadablePages ] :
                \A i, j \in 1..n : l[i].path = l[j].path => i = j } : n \in 0..MaxLoaded }

\* new Date(value).getTime(): NaN for a text that is no date
parseDate(value) ==
    CASE value = "2023-06-01" -> [ nan |-> FALSE, time |-> 20230601 ]
      [] value = "2024-01-01" -> [ nan |-> FALSE, time |-> 20240101 ]
      [] value = "2024-06-01" -> [ nan |-> FALSE, time |-> 20240601 ]
      [] OTHER -> [ nan |-> TRUE, time |-> 0 ]

dateOf(page) ==
    IF "published_date" \in DOMAIN page.frontmatter.fields
    THEN parseDate(page.frontmatter.fields["published_date"])
    ELSE parseDate("undefined")

\* step 1 with the key alone: an empty published_date passes
hasPublishedDateKey(page) == "published_date" \in DOMAIN page.frontmatter.fields

\* step 1: the page carries a non-empty published_date
hasPublishedDate(page) ==
    /\ "published_date" \in DOMAIN page.frontmatter.fields
    /\ page.frontmatter.fields["published_date"] # ""

\* the comparator with its operands exchanged: an ascending sort
compareDatesAscending(a, b) == dateOf(a).time - dateOf(b).time

\* the comparator of step 2: new Date(b) - new Date(a)
compareDates(a, b) == dateOf(b).time - dateOf(a).time

\* one insertion of a stable sort: x goes behind the last page that is not
\* to come after it
insertSorted(sorted, x) ==
    LET stops == { j \in 0..Len(sorted) :
                     \A k \in (j + 1)..Len(sorted) : compareDates(sorted[k], x) > 0 }
        j     == CHOOSE a \in stops : \A b \in stops : a <= b
    IN  SubSeq(sorted, 1, j) \o << x >> \o SubSeq(sorted, j + 1, Len(sorted))

RECURSIVE stableSort(_)
stableSort(pages) ==
    IF pages = << >> THEN << >>
    ELSE insertSorted(stableSort(SubSeq(pages, 1, Len(pages) - 1)), pages[Len(pages)])

permutationsOf(pages) ==
    { [ i \in 1..Len(pages) |-> pages[f[i]] ] :
        f \in { g \in [ 1..Len(pages) -> 1..Len(pages) ] :
                  \A i, j \in 1..Len(pages) : g[i] = g[j] => i = j } }

\* step 2: the stable sort by descending date; with a date that is NaN the
\* comparator is inconsistent and the order is whatever the engine leaves
sortOutcomes(pages) ==
    IF \E i \in 1..Len(pages) : dateOf(pages[i]).nan
    THEN permutationsOf(pages)
    ELSE { stableSort(pages) }

\* step 3: the first configured collection whose directory the path contains
collectionOf(page) ==
    LET hits == { i \in 1..Len(config.collections) :
                    indexOf(page.path, config.pagesDir \o << "/", config.collections[i] >>) # 0 }
    IN  IF hits = {} THEN "none"
        ELSE config.collections[CHOOSE i \in hits : \A j \in hits : i <= j]

collect(sorted) ==
    [ c \in { collectionOf(sorted[i]) : i \in 1..Len(sorted) } \ { "none" } |->
        SelectSeq(sorted, LAMBDA page : collectionOf(page) = c) ]

\* Date.prototype.toISOString / toLocaleDateString of a valid date
isoOf(value) == << value, "T00:00:00.000Z" >>

localeOf(value) == << "locale", value >>

\* processContext of www/brut.config.js: context.posts.map throws without a
\* posts collection, toISOString throws on an invalid date
processContext(ctx) ==
    IF "posts" \notin DOMAIN ctx THEN [ NoContext EXCEPT !.state = "failed" ]
    ELSE IF \E i \in 1..Len(ctx["posts"]) : dateOf(ctx["posts"][i]).nan
    THEN [ NoContext EXCEPT !.state = "failed" ]
    ELSE LET posts == [ i \in 1..Len(ctx["posts"]) |->
                         LET post == ctx["posts"][i]
                             date == post.frontmatter.fields["published_date"]
                         IN  [ post EXCEPT !.frontmatter.fields =
                                 [ k \in { "published_date", "published_date_string",
                                           "published_date_iso" } |->
                                     CASE k = "published_date" -> date
                                       [] k = "published_date_string" -> localeOf(date)
                                       [] OTHER -> isoOf(date) ] ] ]
         IN  [ state |-> "built",
               map |-> [ c \in DOMAIN ctx |-> IF c = "posts" THEN posts ELSE ctx[c] ],
               updated_date_iso |-> posts[1].frontmatter.fields["published_date_iso"] ]

\* config.processContext: the configured function, or (context) => context
configProcessContext(ctx) ==
    IF configFile = "www" THEN processContext(ctx)
    ELSE [ state |-> "built", map |-> ctx, updated_date_iso |-> << >> ]

InitContext ==
    /\ file = << >>
    /\ extracted = NotCalled
    /\ pagesTree = << >>
    /\ publicTree = {}
    /\ missingDirs = {}
    /\ partialsTree = PartialFiles
    /\ IdlePaths
    /\ outFiles = << >>
    /\ outDirs = {}
    /\ IdleBuild
    /\ run = 1
    /\ firstTree = << >>
    /\ loaded \in LoadedLists
    /\ context = NoContext
    /\ renderStarted = {}
    /\ configFile \in ConfigFiles

\* phase 3: the context is built once from all loaded pages
BuildContext ==
    /\ context.state = "none"
    /\ \E sorted \in sortOutcomes(SelectSeq(loaded, hasPublishedDate)) :
          context' = configProcessContext(collect(sorted))
    /\ UNCHANGED << fmVars, inputVars, buildVars, runVars, loaded, renderStarted, configFile >>

\* phase 4: every loaded page is handed to its render
StartRenders ==
    /\ context.state = "built"
    /\ renderStarted = {}
    /\ loaded # << >>
    /\ renderStarted' = { loaded[i].path : i \in 1..Len(loaded) }
    /\ UNCHANGED << fmVars, inputVars, buildVars, runVars, loaded, context, configFile >>

NextContext == BuildContext \/ StartRenders

SpecContext == InitContext /\ [][NextContext]_vars

(***************************************************************************)
(* Claims about extractFrontmatter (checked under SpecFrontmatter).        *)
(***************************************************************************)
\* what a leading block is, said without the regular expression: the first
\* line is an opening delimiter and some later line is a closing delimiter
lineStartsAt(s, c) == c >= 2 /\ c <= Len(s) /\ s[c - 1] \in Newlines

lineEndsAt(s, c) == c = Len(s) \/ (c < Len(s) /\ s[c + 1] \in Newlines)

delimiterLineAt(s, c, delims) ==
    lineStartsAt(s, c) /\ s[c] \in delims /\ lineEndsAt(s, c)

hasLeadingBlock(s) ==
    /\ Len(s) >= 3
    /\ s[1] \in OpenDelims
    /\ s[2] \in Newlines
    /\ \E c \in 3..Len(s) : delimiterLineAt(s, c, CloseDelims)

\* the text after the line that holds lexeme c, its whole line end dropped
textAfterLine(s, c) ==
    IF c + 2 <= Len(s) /\ s[c + 1] = "CR" /\ s[c + 2] = "LF" THEN SubSeq(s, c + 3, Len(s))
    ELSE SubSeq(s, c + 2, Len(s))

\* a leading block whose delimiters pair up: --- with ---, <!-- with -->
hasPairedBlock(s) ==
    /\ Len(s) >= 3
    /\ s[1] \in OpenDelims
    /\ s[2] \in Newlines
    /\ \E c \in 3..Len(s) :
          delimiterLineAt(s, c, IF s[1] = "---" THEN { "---" } ELSE { "-->" })

\* C7: whenever extractFrontmatter recognises a leading block and returns,
\* `content` is the text after a closing delimiter line, and the block
\* (the text up to and including that line) followed by `content` is the input.
C7_RoundTrip ==
    (extracted.called /\ ~extracted.threw /\ hasLeadingBlock(file)) =>
        \E c \in 3..Len(file) :
            /\ delimiterLineAt(file, c, CloseDelims)
            /\ extracted.content = textAfterLine(file, c)
            /\ SubSeq(file, 1, Len(file) - Len(extracted.content)) \o extracted.content = file
            /\ Len(file) - Len(extracted.content) >= c

\* C7 witness: a recognised block with text after it has been extracted
C7_Witness ==
    /\ extracted.called /\ ~extracted.threw
    /\ hasLeadingBlock(file)
    /\ extracted.content # << >>
    /\ extracted.content # file

\* C8: a text that does not start with a frontmatter block comes back whole
\* as `content`, with an empty frontmatter mapping, and nothing is thrown.
C8_NoBlockUnchanged ==
    (extracted.called /\ ~hasLeadingBlock(file)) =>
        /\ ~extracted.threw
        /\ extracted.frontmatter = EmptyMapping
        /\ extracted.content = file

\* C8 witness: a text that opens like a block but never closes it was extracted
C8_Witness ==
    /\ extracted.called
    /\ ~hasLeadingBlock(file)
    /\ Len(file) >= 3 /\ file[1] \in OpenDelims /\ file[2] \in Newlines

\* C9: a block is recognised only when its delimiters pair up (--- with ---,
\* <!-- with -->); a text without a paired block is treated as having no
\* frontmatter block (empty mapping, content unchanged).
C9_OnlyPairedDelimiters ==
    (extracted.called /\ ~hasPairedBlock(file)) =>
        /\ ~extracted.threw
        /\ extracted.frontmatter = EmptyMapping
        /\ extracted.content = file

\* C25: what extractFrontmatter returns as frontmatter is always a mapping
\* (unless the parse fails), also for a recognised block whose body is
\* absent, empty or not made of key: value lines.
C25_AlwaysMapping ==
    (extracted.called /\ ~extracted.threw) => extracted.frontmatter.kind = "mapping"

(***************************************************************************)
(* Claims about the build (checked under Spec, C6 under SpecRebuild).      *)
(***************************************************************************)
\* a page's path relative to the pages root, its extension, its file name
\* without the extension, and its path without the extension
relOf(p) == slice(p, Len(config.pagesDir))

extOf(p) == p[Len(p)]

withoutExt(rel) == SubSeq(rel, 1, Len(rel) - 1)

nameOf(rel) == SubSeq(rel, Len(dirname(rel)) + 2, Len(rel) - 1)

IndexHtml == << "/", "index", ".html" >>

\* the page's own processing throws (frontmatter, template or build script)
pageThrows(p) ==
    LET got == extractFrontmatter(pagesTree[p])
        fm  == got.frontmatter
    IN  \/ got.threw
        \/ fm.kind = "null"
        \/ "template" \in DOMAIN fm.fields
              /\ fm.fields["template"] \notin { registryName(f) : f \in DOMAIN TemplateFiles }
        \/ "buildScript" \in DOMAIN fm.fields /\ fm.fields["buildScript"] \in ThrowingScripts

scriptThrows(p) ==
    LET fm == extractFrontmatter(pagesTree[p]).frontmatter
    IN  "buildScript" \in DOMAIN fm.fields /\ fm.fields["buildScript"] \in ThrowingScripts

\* the template step of the page is behind it
rendered(p) == task[p].pc \in { "scripting", "minifying", "ensuring", "writing", "storing", "done" }

\* C1: every page whose file name without extension is not `index` is
\* written to outDir + <relative path without the extension> + /index.html
\* (stated here with the page of slug /404/, which C3 sends to 404.html, left aside).
C1_PrettyUrlDestination ==
    \A w \in written :
        (nameOf(relOf(w.page)) # << "index" >> /\ withoutExt(relOf(w.page)) # << "/", "404" >>)
            => w.dest = config.outDir \o withoutExt(relOf(w.page)) \o IndexHtml

\* C2: a page is treated as an index page exactly when its file name without
\* extension is `index`, and then it is written to outDir/<dir>/index.html.
C2_IndexExactlyByName ==
    \A w \in written :
        /\ isIndexFile(w.page) <=> (nameOf(relOf(w.page)) = << "index" >>)
        /\ (nameOf(relOf(w.page)) = << "index" >>)
              => w.dest = config.outDir \o dirname(relOf(w.page)) \o IndexHtml

\* C3: the page of slug /404/ (relPath /404) is written to outDir/404.html and
\* not to outDir/404/index.html; a page of any other slug is written to
\* outDir + slug + index.html.
C3_NotFoundPage ==
    \A w \in written :
        LET slug == task[w.page].relPath \o << "/" >>
        IN  IF slug = << "/", "404", "/" >>
            THEN /\ w.dest = config.outDir \o << "/", "404", ".html" >>
                 /\ config.outDir \o << "/", "404" >> \o IndexHtml \notin DOMAIN outFiles
            ELSE w.dest = config.outDir \o slug \o << "index", ".html" >>

\* C3 witness: the 404 page has been written
C3_Witness ==
    \E w \in written : task[w.page].relPath = << "/", "404" >>

\* C4: when the build has come to rest, every page (.md, .html) whose own
\* processing does not throw has been written, also when a sibling threw.
C4_Isolation ==
    Quiescent =>
        \A p \in DOMAIN pagesTree :
            (isPage(p) /\ ~pageThrows(p)) => \E w \in written : w.page = p

\* C4 witness: a build script threw and another page was written all the same
C4_Witness ==
    /\ Quiescent
    /\ \E p \in DOMAIN task :
          /\ task[p].pc = "failed" /\ scriptThrows(p)
          /\ \E w \in written : w.page # p

pageDest(p) == destOf(outDirOf(p))

\* dir is a directory that file lies in
liesUnder(f, dir) == Len(dir) < Len(f) /\ SubSeq(f, 1, Len(dir)) = dir /\ f[Len(dir) + 1] = "/"

destinations ==
    [ src \in { x \in DOMAIN pagesTree : isPage(x) } \cup publicTree |->
        IF src \in publicTree THEN config.outDir \o src ELSE pageDest(src) ]

\* no two sources share a destination, and no destination is a directory of another
distinctDestinations ==
    \A a, b \in DOMAIN destinations :
        /\ destinations[a] = destinations[b] => a = b
        /\ ~liesUnder(destinations[a], destinations[b])

C10_MdHtmlXml ==
    \A p \in DOMAIN task :
        (extOf(p) \in { ".md", ".html", ".xml" }) <=> (task[p].pc # "skipped")

\* C10 as amended: exactly the files of extension .md or .html are processed
\* as pages; any other file (.xml included) gives no output file.
C10_MdHtmlOnly ==
    \A p \in DOMAIN task :
        /\ (extOf(p) \in { ".md", ".html" }) <=> (task[p].pc # "skipped")
        /\ (extOf(p) \notin { ".md", ".html" }) => \A w \in written : w.page # p

\* C10 witness: the build is over, an .xml file was passed over and a page written
C10_Witness ==
    /\ Quiescent
    /\ \E p \in DOMAIN task : extOf(p) = ".xml" /\ task[p].pc = "skipped"
    /\ written # {}

\* the slug of a page: the relative path handed on as `path`, closed by a slash
slugOf(p) == task[p].relPath \o << "/" >>

\* a permalink value as a path
permalinkPath(value) == IF value = "/custom/" THEN << "/", "custom", "/" >> ELSE << value >>

\* C11: a page whose frontmatter sets `permalink` has that value as its slug,
\* in place of the slug derived from its path, and is written under it; the
\* slug of a page is fixed by its path and its frontmatter.
C11_PermalinkIsSlug ==
    \A w \in written :
        LET fm == task[w.page].frontmatter
        IN  /\ "permalink" \in DOMAIN fm.fields =>
                  /\ slugOf(w.page) = permalinkPath(fm.fields["permalink"])
                  /\ w.dest = config.outDir \o permalinkPath(fm.fields["permalink"]) \o << "index", ".html" >>
            /\ "permalink" \notin DOMAIN fm.fields =>
                  slugOf(w.page) = relPathOf(w.page) \o << "/" >>

\* every task of the build has run to its end
allTasksOver ==
    /\ bp.pc = "resolved"
    /\ mover.pc = "done"
    /\ \A p \in DOMAIN task : ~continues(task, p)

\* C14: whenever a page task has failed (template, build script or write), its
\* error has been logged and buildPages has resolved; and once every task is
\* over the static files are all copied and init has finished.
C14_FailuresContained ==
    /\ \A p \in DOMAIN task :
          task[p].pc = "failed" => (p \in logged /\ bp.pc = "resolved")
    /\ allTasksOver => (initPc = "finished" /\ mover.copied = publicTree)

\* the page fails for a reason of its own that no registry has a part in
failsWithoutTemplate(p) ==
    LET got == extractFrontmatter(pagesTree[p])
    IN  got.threw \/ got.frontmatter.kind = "null" \/ scriptThrows(p)

namesTemplate(p) ==
    "template" \in DOMAIN extractFrontmatter(pagesTree[p]).frontmatter.fields

afterMarkdown(p) ==
    LET body == extractFrontmatter(pagesTree[p]).content
    IN  IF extOf(p) = ".md" THEN << "md2html(" >> \o body \o << ")" >> ELSE body

afterTemplate(p) ==
    LET fm == extractFrontmatter(pagesTree[p]).frontmatter
    IN  IF "template" \in DOMAIN fm.fields
        THEN mustacheRender(bp.templates.map[fm.fields["template"]], fm,
                            partialsOf(afterMarkdown(p), bp.partials.map))
        ELSE afterMarkdown(p)

afterScript(p) ==
    LET fm == extractFrontmatter(pagesTree[p]).frontmatter
    IN  IF "buildScript" \in DOMAIN fm.fields
        THEN << "script(" >> \o task[p].relPath \o << ":" >> \o afterTemplate(p) \o << ")" >>
        ELSE afterTemplate(p)

afterMinify(p) == << "minify(" >> \o afterScript(p) \o << ")" >>

\* C16: the string a page task hands to writeFile is the minifier's output of
\* the build script's output (if any) of the template's rendering (if any) of
\* the Markdown conversion (for .md only) of the page body, and the file a
\* page task has written holds that string (when nothing else of the site has
\* the same destination).
C16_StepOrder ==
    /\ \A p \in DOMAIN task :
          task[p].pc \in { "ensuring", "writing", "storing", "done" } => task[p].result = afterMinify(p)
    /\ \A w \in written :
          (\A src \in DOMAIN destinations : destinations[src] = w.dest => src = w.page)
              => outFiles[w.dest] = afterMinify(w.page)

\* C16 witness: a page with a template and a build script and a page with
\* neither have both been written
C16_Witness ==
    /\ \E w \in written :
          /\ namesTemplate(w.page)
          /\ "buildScript" \in DOMAIN task[w.page].frontmatter.fields
          /\ outFiles[w.dest] = afterMinify(w.page)
    /\ \E w \in written :
          /\ task[w.page].frontmatter = EmptyMapping
          /\ outFiles[w.dest] = << "minify(" >> \o pagesTree[w.page] \o << ")" >>

\* the page's build script has been called and has returned
scriptReturned(p) ==
    /\ "buildScript" \in DOMAIN task[p].frontmatter.fields
    /\ task[p].pc \in { "minifying", "ensuring", "writing", "storing", "done" }

\* C17: a build script is called with the rendered HTML, the frontmatter and
\* the slug of its page, and that slug begins and ends with a slash.
C17_ScriptGetsSlug ==
    \A p \in DOMAIN task :
        scriptReturned(p) =>
            LET path == task[p].relPath
            IN  /\ task[p].html = << "script(" >> \o path \o << ":" >> \o afterTemplate(p) \o << ")" >>
                /\ path # << >>
                /\ path[1] = "/"
                /\ path[Len(path)] = "/"

\* the files this invocation has put into the output directory
producedNow ==
    { w.dest : w \in written }
        \cup { destOf(task[p].outDir) : p \in { q \in DOMAIN task : task[q].pc = "storing" } }
        \cup { config.outDir \o rel : rel \in mover.copied }

\* C18 (checked under SpecRebuild): nothing is copied or written before the
\* output directory has been cleared, and from then on every file in it was
\* produced by this invocation.
C18_ClearedFirst ==
    /\ initPc \in { "config", "clearing" } => (written = {} /\ mover.copied = {})
    /\ initPc \in { "making", "awaiting", "finished" } => DOMAIN outFiles \subseteq producedNow

\* C18 witness: the files an earlier build left are gone before the second
\* build has copied or written anything, and the second build then writes
C18_Witness ==
    /\ run = 2
    /\ firstTree # << >>
    /\ initPc = "finished"
    /\ written # {}
    /\ DOMAIN outFiles = producedNow

\* two distinct pages of the site with one destination
collide(p, q) == p # q /\ isPage(p) /\ isPage(q) /\ pageDest(p) = pageDest(q)

\* C19: of two pages with the same destination neither is rejected
\* (a page task fails only for a reason of its own), both are written once
\* every task is over, and each write leaves the destination with the content
\* of the page that wrote: the last write decides.
C19_LastWriteWins ==
    [][ \A p \in DOMAIN task' :
          /\ task'[p].pc = "failed" => pageThrows(p)
          /\ (allTasksOver' /\ ~pageThrows(p) /\ isPage(p)) => \E w \in written' : w.page = p
          /\ (p \in DOMAIN task /\ task[p].pc = "storing" /\ task'[p].pc = "done") =>
                outFiles'[pageDest(p)] = task[p].result ]_vars

\* both registries hold every file of their directories
registriesComplete ==
    /\ bp.templates = [ state |-> "loaded", map |-> loadRegistry(TemplateFiles) ]
    /\ bp.partials = [ state |-> "loaded", map |-> loadRegistry(partialsTree) ]

\* C20: from the moment the page tasks exist (so before any render) both
\* registries are completely loaded, and no step changes them afterwards.
C20_RegistriesReadOnly ==
    [][ \A p \in DOMAIN task :
          task[p].pc # "skipped" =>
              /\ registriesComplete
              /\ bp'.templates = bp.templates
              /\ bp'.partials = bp.partials ]_vars

\* C20 witness: a page has been rendered through a template and written
C20_Witness ==
    /\ registriesComplete
    /\ \E w \in written :
          /\ namesTemplate(w.page)
          /\ task[w.page].pc = "done"
          /\ task[w.page].result = afterMinify(w.page)

\* the page's body (after Markdown) rendered as a template of its own
selfRendered(p) ==
    mustacheRender(afterMarkdown(p), extractFrontmatter(pagesTree[p]).frontmatter,
                   bp.partials.map)

\* C21: a page whose frontmatter names no template is rendered with its own
\* content as the template source, against its variables and the partial
\* registry: past the template step its content is that rendering, so the
\* template tags of the page are expanded.
C21_SelfTemplating ==
    \A p \in DOMAIN task :
        (rendered(p) /\ ~namesTemplate(p) /\ ~scriptReturned(p))
            => task[p].html = selfRendered(p)

\* the page's template rendered with the given text as the partial named
\* content and every partial of the registry under its own name
renderedWithContent(p, body) ==
    LET fm       == extractFrontmatter(pagesTree[p]).frontmatter
        registry == loadRegistry(partialsTree)
    IN  mustacheRender(loadRegistry(TemplateFiles)[fm.fields["template"]], fm,
                       [ k \in { "content" } \cup DOMAIN registry |->
                           IF k = "content" THEN body ELSE registry[k] ])

\* the template of the page has been rendered and no build script has
\* changed the rendering yet
templateRendered(p) == rendered(p) /\ namesTemplate(p) /\ ~scriptReturned(p)

\* C22 as claimed (checked under SpecPartials): in every template render the
\* partial named content is the page's own body after Markdown, whatever the
\* partial registry holds.
C22_ContentIsPageBody ==
    \A p \in DOMAIN task :
        templateRendered(p) => task[p].html = renderedWithContent(p, afterMarkdown(p))

\* C22 as amended (checked under SpecPartials): in every template render the
\* partial named content is the page's own body after Markdown unless the
\* partial registry holds a partial named content, which then takes its
\* place; every partial of the registry is available under its own name.
C22_ContentUnlessRegistered ==
    \A p \in DOMAIN task :
        templateRendered(p) =>
            LET registry == loadRegistry(partialsTree)
            IN  task[p].html =
                    renderedWithContent(p, IF "content" \in DOMAIN registry
                                           THEN registry["content"]
                                           ELSE afterMarkdown(p))

\* C22 witness: a page has been rendered through its template and written
\* while the registry holds a partial named content, which took the place of
\* the page body
C22_Witness ==
    \E p \in DOMAIN task :
        /\ templateRendered(p)
        /\ task[p].pc = "done"
        /\ "content" \in DOMAIN bp.partials.map
        /\ "nav" \in DOMAIN bp.partials.map
        /\ task[p].html # renderedWithContent(p, afterMarkdown(p))

\* writeFile has been called for the page and has not been rejected
atWrite(t) == t.pc \in { "writing", "storing", "done" }

\* C23: from the call of writeFile on, the directory that contains the
\* page's destination exists, so no write of a page is rejected; and an
\* ensureDir always resolves, also for a directory that exists already.
C23_DirectoryExistsAtWrite ==
    [][ \A p \in DOMAIN task \cap DOMAIN task' :
          /\ atWrite(task'[p]) => dirname(destOf(task'[p].outDir)) \in outDirs'
          /\ (task[p].pc = "ensuring" /\ task'[p].pc # "ensuring") => task'[p].pc = "writing"
          /\ (task[p].pc = "writing" /\ task'[p].pc # "writing") => task'[p].pc = "storing" ]_vars

\* C23 witness: two pages with one output directory have both been written,
\* so the second ensureDir found the directory its sibling had created
C23_Witness ==
    \E p, q \in DOMAIN task :
        /\ p # q
        /\ task[p].pc = "done"
        /\ task[q].pc = "done"
        /\ task[p].outDir = task[q].outDir
        /\ task[p].outDir \in outDirs

\* C24: once buildPages has resolved every page task has finished, and no
\* page file is opened or written from then on, also when a page task failed.
C24_NoWriteAfterResolve ==
    [][ bp.pc = "resolved" =>
          /\ \A p \in DOMAIN task : task[p].pc \notin Running
          /\ written' = written
          /\ \A p \in DOMAIN task \cap DOMAIN task' : task'[p].pc = task[p].pc ]_vars

(***************************************************************************)
(* Claims about the path resolution (checked under SpecPaths).             *)
(***************************************************************************)
\* C26: every file a page is written to lies inside the configured output
\* directory, whatever pagesDir and outDir the configuration has produced.
C26_InsideOutDir ==
    resolved.called => liesUnder(resolved.dest, resolve(roots.outDir))

\* the roots getConfig makes of www/brut.config.js
plainRoots == roots = [ pagesDir |-> config.pagesDir, outDir |-> config.outDir ]

\* the directory of the page relative to the pages root
pageDirectory == dirname(slice(pagePath, Len(resolve(roots.pagesDir))))

\* C27: the destination of a page lies in or under the directory the page has
\* relative to the pages root, every component of it unchanged, also when
\* the name of a directory holds `.md` or `.html`.
C27_DirectoriesUnchanged ==
    (resolved.called /\ plainRoots) =>
        LET under == roots.outDir \o pageDirectory
        IN  SubSeq(resolved.dest, 1, Len(under) + 1) = under \o << "/" >>

(***************************************************************************)
(* Claims about the collections of the context (checked under SpecContext).*)
(***************************************************************************)
\* the page has no published_date, or an empty one
lacksPublishedDate(page) ==
    \/ "published_date" \notin DOMAIN page.frontmatter.fields
    \/ page.frontmatter.fields["published_date"] = ""

\* the page of this path is in the sequence of some collection of the context
inSomeCollection(path) ==
    \E c \in DOMAIN context.map :
        \E i \in 1..Len(context.map[c]) : context.map[c][i].path = path

\* the path lies in the directory of a configured collection
inCollectionDir(path) ==
    \E i \in 1..Len(config.collections) :
        indexOf(path, config.pagesDir \o << "/", config.collections[i] >>) # 0

allDatesParse(pages) == \A i \in 1..Len(pages) : ~dateOf(pages[i]).nan

\* of two adjacent pages the earlier has a date greater than or equal to the later
descending(pages) ==
    \A i \in 1..(Len(pages) - 1) :
        /\ ~dateOf(pages[i]).nan
        /\ ~dateOf(pages[i + 1]).nan
        /\ dateOf(pages[i]).time >= dateOf(pages[i + 1]).time

====
